---------------------------- MODULE Spec2Model ----------------------------
(***************************************************************************)
(* A model of DCpro3.ipynb: a simulated digital communication link.        *)
(*                                                                         *)
(*   payload -> bit codec -> Hamming(7,4) -> modulator -> AWGN channel     *)
(*           -> demodulator -> Hamming decode -> bit codec -> payload      *)
(*                                                                         *)
(* The transformation functions of the notebook are operators with the     *)
(* notebook's names.  Two specifications use them:                         *)
(*   Spec    main(): the interactive loop, one pass per message;           *)
(*   SpecFn  function-level runs: Init draws the arguments of one          *)
(*           function (or of a short chain of them) from bounded sets and  *)
(*           the actions apply it.                                         *)
(*                                                                         *)
(* Representation.  A bit array is a sequence over {0,1}.  A text is the   *)
(* sequence of its characters' code points.  A symbol is a record          *)
(* [re, im] of integers counting grid steps of 1/Unit, so that the real    *)
(* value v is stored as v * Unit.  An audio sample is the int16 value,     *)
(* i.e. the float sample times 32768.  Eb/N0 is held in tenths of a dB.    *)
(***************************************************************************)
EXTENDS Integers, Sequences, FiniteSets

VARIABLES
    pc,               \* position in main(), or in a function-level run
    mode,             \* main: the menu entry typed
    message,          \* main: the text typed (code points)
    audio,            \* main: the int16 samples read from the .wav file
    file_mode,        \* main: "text" | "audio"
    bits,             \* payload bits
    encoded,          \* hamming_encode(bits)
    mod_choice,       \* "1" BPSK | "2" QPSK | "3" 16-QAM
    EbN0_dB,          \* tenths of a dB
    bits_per_symbol,
    modulated,
    noisy,
    demodulated,
    decoded,
    received_msg,
    received_audio,
    raised,           \* the exception the last call raised, or "none"
    given,            \* SpecFn: the argument as it was before the call
    flips,            \* SpecFn: the channel's bit errors (positions in encoded)
    calls,            \* history: the stage functions main called in this pass
    typed             \* history: the entry typed at the modulation prompt

vars == << pc, mode, message, audio, file_mode, bits, encoded, mod_choice,
           EbN0_dB, bits_per_symbol, modulated, noisy, demodulated, decoded,
           received_msg, received_audio, raised, given, flips, calls, typed >>

-----------------------------------------------------------------------------
(* Bounds of the model *)

\* grid steps per amplitude unit: symbol values are multiples of 1/Unit
Unit == 2
\* longest text typed at the prompt, in characters
MaxChars == 2
\* most samples in the .wav file
MaxSamples == 1
\* longest argument of a function-level run of hamming_encode, in bits
MaxData == 9
\* longest argument of a function-level run of hamming_decode, in bits
MaxCode == 13
\* longest argument of a function-level modulate/demodulate run, in bits
MaxModBits == 8
\* most whole bytes in the argument of a function-level run of bits_to_audio
MaxBytes == 4
\* largest axis value of a received 16-QAM symbol, in amplitude units
MaxAxis == 5

\* characters typed: U+0000, 'H', 'I', U+00FF (the largest 8-bit code
\* point), U+0100
Chars == {0, 72, 73, 255, 256}
\* int16 samples a .wav file holds
Samples == {0, 2, 32767, -32768}
\* bytes of a function-level argument of bits_to_audio
Bytes == {0, 1, 128, 255}
\* what is typed at the Eb/N0 prompt
Entries == {"", "abc", "20", "20.1", "-0.5"}
\* what is typed at the menu and at the modulation prompt
ModeEntries == {"1", "2", "3", "9"}
ModEntries == {"1", "2", "3", "x"}
\* the .wav path typed: a file that is there, one that is missing, one that
\* wavfile.read cannot read
Paths == {"ok.wav", "missing.wav", "broken.wav"}
\* block counts of a function-level encode/corrupt/decode run: no data, a
\* block alone, and a block with a neighbour
FecBlocks == {0, 1, 2}

Bit == {0, 1}

\* all sequences over S of length n, and of length within lens
RECURSIVE SeqsOfLen(_, _)
SeqsOfLen(S, n) ==
    IF n = 0 THEN { <<>> }
    ELSE { <<x>> \o s : x \in S, s \in SeqsOfLen(S, n - 1) }

SeqsUpTo(S, n) == UNION { SeqsOfLen(S, k) : k \in 0..n }

Take(s, n) == SubSeq(s, 1, IF n < Len(s) THEN n ELSE Len(s))
Drop(s, n) == SubSeq(s, n + 1, Len(s))

RECURSIVE Repeat(_, _)
Repeat(x, n) == IF n <= 0 THEN <<>> ELSE <<x>> \o Repeat(x, n - 1)

RECURSIVE Concat(_)
Concat(ss) == IF Len(ss) = 0 THEN <<>> ELSE Head(ss) \o Concat(Tail(ss))

Abs(v) == IF v < 0 THEN -v ELSE v

\* Python's ^ on two bits
Xor(a, b) == (a + b) % 2

-----------------------------------------------------------------------------
(* Text-audio conversion utilities *)

\* bin(n) without the prefix: the binary digits of n >= 0, most significant first
RECURSIVE BinDigits(_)
BinDigits(n) == IF n < 2 THEN <<n>> ELSE BinDigits(n \div 2) \o <<n % 2>>

\* format(n, '08b'): the binary digits, zero-filled on the left to a width of
\* AT LEAST 8; a number of more than 8 digits keeps them all
Format08b(n) == Repeat(0, 8 - Len(BinDigits(n))) \o BinDigits(n)

text_to_bits(text) == Concat([i \in 1..Len(text) |-> Format08b(text[i])])

\* int(s, 2) on a sequence of binary digits
RECURSIVE IntBase2(_)
IntBase2(digits) ==
    IF Len(digits) = 0 THEN 0
    ELSE 2 * IntBase2(SubSeq(digits, 1, Len(digits) - 1)) + digits[Len(digits)]

bits_to_text(bs) ==
    LET kept == Take(bs, Len(bs) - (Len(bs) % 8))
    IN  [i \in 1..(Len(kept) \div 8) |-> IntBase2(SubSeq(kept, 8 * i - 7, 8 * i))]

\* the int16 value of the two bytes lo, hi of a little-endian sample
Int16(lo, hi) ==
    LET u == lo + 256 * hi IN IF u >= 32768 THEN u - 65536 ELSE u

\* (audio * 32767).astype(np.int16) for audio = s / 32768 clipped to [-1, 1]:
\* the product is truncated toward zero
Scale16(s) ==
    IF s >= 0 THEN (s * 32767) \div 32768 ELSE -(((-s) * 32767) \div 32768)

\* the two bytes of an int16 value, in memory order (little-endian)
BytesOf16(v) ==
    LET u == IF v < 0 THEN v + 65536 ELSE v IN << u % 256, u \div 256 >>

audio_to_bits(samples) ==
    Concat([i \in 1..Len(samples) |->
              LET b == BytesOf16(Scale16(samples[i]))
              IN  Format08b(b[1]) \o Format08b(b[2])])

\* np.packbits on a bit array whose length is a multiple of 8
packbits(bs) ==
    [i \in 1..(Len(bs) \div 8) |-> IntBase2(SubSeq(bs, 8 * i - 7, 8 * i))]

\* np.frombuffer(byte_data, dtype=np.int16) raises ValueError when the buffer
\* size is not a multiple of the element size
frombuffer_raises(byte_data) == Len(byte_data) % 2 # 0

frombuffer(byte_data) ==
    [i \in 1..(Len(byte_data) \div 2) |->
        Int16(byte_data[2 * i - 1], byte_data[2 * i])]

bits_to_audio_raises(bs) ==
    frombuffer_raises(packbits(Take(bs, Len(bs) - (Len(bs) % 8))))

\* the samples returned (times 32768), when nothing is raised
bits_to_audio(bs) ==
    frombuffer(packbits(Take(bs, Len(bs) - (Len(bs) % 8))))

-----------------------------------------------------------------------------
(* Hamming(7,4) encoding and decoding *)

\* the while loop of hamming_encode: a short final group is filled with zeros
PadGroup(d) == d \o Repeat(0, 4 - Len(d))

\* mutant of EncodeBlock: the parity bits first, then the data bits
EncodeBlock_systematic(d) ==
    LET p1 == Xor(Xor(d[1], d[2]), d[4])
        p2 == Xor(Xor(d[1], d[3]), d[4])
        p3 == Xor(Xor(d[2], d[3]), d[4])
    IN  << p1, p2, p3, d[1], d[2], d[3], d[4] >>

\* one group d = (d1, d2, d3, d4) to its block [p1, p2, d1, p3, d2, d3, d4]
EncodeBlock(d) ==
    LET p1 == Xor(Xor(d[1], d[2]), d[4])
        p2 == Xor(Xor(d[1], d[3]), d[4])
        p3 == Xor(Xor(d[2], d[3]), d[4])
    IN  << p1, p2, d[1], p3, d[2], d[3], d[4] >>

RECURSIVE hamming_encode(_)
hamming_encode(data_bits) ==
    IF Len(data_bits) = 0 THEN <<>>
    ELSE EncodeBlock(PadGroup(Take(data_bits, 4)))
           \o hamming_encode(Drop(data_bits, 4))

\* mutant of ErrorPos: the syndrome bits weighted in the opposite order
ErrorPos_reversed(block) ==
    LET s1 == Xor(Xor(Xor(block[1], block[3]), block[5]), block[7])
        s2 == Xor(Xor(Xor(block[2], block[3]), block[6]), block[7])
        s3 == Xor(Xor(Xor(block[4], block[5]), block[6]), block[7])
    IN  (s1 * 4) + (s2 * 2) + s3

\* error_pos of a full block (p1, p2, d1, p3, d2, d3, d4)
ErrorPos(block) ==
    LET s1 == Xor(Xor(Xor(block[1], block[3]), block[5]), block[7])
        s2 == Xor(Xor(Xor(block[2], block[3]), block[6]), block[7])
        s3 == Xor(Xor(Xor(block[4], block[5]), block[6]), block[7])
    IN  s1 + (s2 * 2) + (s3 * 4)

\* mutant of CorrectBlock: "block[error_pos] ^= 1", the index one too far
CorrectBlock_offbyone(block) ==
    LET error_pos == ErrorPos(block)
    IN  IF error_pos # 0 /\ error_pos < 7
        THEN [block EXCEPT ![error_pos + 1] = Xor(block[error_pos + 1], 1)]
        ELSE block

\* the block after "block[error_pos - 1] ^= 1"
CorrectBlock(block) ==
    LET error_pos == ErrorPos(block)
    IN  IF error_pos # 0 /\ error_pos <= 7
        THEN [block EXCEPT ![error_pos] = Xor(block[error_pos], 1)]
        ELSE block

\* the data bits taken from a block: block[2], block[4], block[5], block[6]
\* (0-based), after the correction
DataOf(block) == << block[3], block[5], block[6], block[7] >>

\* mutant of hamming_decode: a short final block is filled with zeros and
\* decoded like the others
RECURSIVE hamming_decode_padded(_)
hamming_decode_padded(encoded_bits) ==
    IF Len(encoded_bits) = 0 THEN <<>>
    ELSE LET block == Take(encoded_bits, 7) \o Repeat(0, 7 - Len(Take(encoded_bits, 7)))
         IN  << block[3], block[5], block[6], block[7] >>
                \o hamming_decode_padded(Drop(encoded_bits, 7))

\* the value hamming_decode returns
RECURSIVE hamming_decode(_)
hamming_decode(encoded_bits) ==
    IF Len(encoded_bits) = 0 THEN <<>>
    ELSE LET block == Take(encoded_bits, 7)
         IN  IF Len(block) < 7
             THEN hamming_decode(Drop(encoded_bits, 7))
             ELSE DataOf(CorrectBlock(block))
                    \o hamming_decode(Drop(encoded_bits, 7))

\* the contents of the array passed to hamming_decode when it returns.  The
\* argument is a numpy array, block = encoded_bits[i:i + 7] is a view of it,
\* and block[error_pos - 1] ^= 1 writes through the view.
RECURSIVE hamming_decode_arg(_)
hamming_decode_arg(encoded_bits) ==
    IF Len(encoded_bits) = 0 THEN <<>>
    ELSE LET block == Take(encoded_bits, 7)
         IN  IF Len(block) < 7
             THEN block \o hamming_decode_arg(Drop(encoded_bits, 7))
             ELSE CorrectBlock(block) \o hamming_decode_arg(Drop(encoded_bits, 7))

-----------------------------------------------------------------------------
(* Modulation / demodulation *)

Sym(I, Q) == [re |-> I, im |-> Q]

\* 2 * bits.astype(float) - 1: a real array
bpsk_modulate(bs) == [i \in 1..Len(bs) |-> Sym((2 * bs[i] - 1) * Unit, 0)]

bpsk_demodulate(signal) ==
    [i \in 1..Len(signal) |-> IF signal[i].re >= 0 THEN 1 ELSE 0]

qpsk_modulate(bs) ==
    LET padded == IF Len(bs) % 2 # 0 THEN bs \o <<0>> ELSE bs
    IN  [k \in 1..(Len(padded) \div 2) |->
            Sym((IF padded[2 * k - 1] = 1 THEN 1 ELSE -1) * Unit,
                (IF padded[2 * k] = 1 THEN 1 ELSE -1) * Unit)]

\* mutant of qpsk_demodulate: the quadrature bit first
qpsk_demodulate_swapped(symbols) ==
    Concat([i \in 1..Len(symbols) |->
              << IF symbols[i].im >= 0 THEN 1 ELSE 0,
                 IF symbols[i].re >= 0 THEN 1 ELSE 0 >>])

qpsk_demodulate(symbols) ==
    Concat([i \in 1..Len(symbols) |->
              << IF symbols[i].re >= 0 THEN 1 ELSE 0,
                 IF symbols[i].im >= 0 THEN 1 ELSE 0 >>])

\* mutant of mapping: the levels in natural binary order, not Gray order
mapping_binary(b1, b2) ==
    CASE b1 = 0 /\ b2 = 0 -> -3 * Unit
      [] b1 = 0 /\ b2 = 1 -> -1 * Unit
      [] b1 = 1 /\ b2 = 0 -> 1 * Unit
      [] b1 = 1 /\ b2 = 1 -> 3 * Unit

\* the mapping table of qam16_modulate
mapping(b1, b2) ==
    CASE b1 = 0 /\ b2 = 0 -> -3 * Unit
      [] b1 = 0 /\ b2 = 1 -> -1 * Unit
      [] b1 = 1 /\ b2 = 1 -> 1 * Unit
      [] b1 = 1 /\ b2 = 0 -> 3 * Unit

qam16_modulate(bs) ==
    LET padded == IF Len(bs) % 4 # 0
                  THEN bs \o Repeat(0, 4 - (Len(bs) % 4))
                  ELSE bs
    IN  [k \in 1..(Len(padded) \div 4) |->
            Sym(mapping(padded[4 * k - 3], padded[4 * k - 2]),
                mapping(padded[4 * k - 1], padded[4 * k]))]

\* mutant of AxisBits: the sign decided with >=, as BPSK and QPSK do
AxisBits_ge(v) == << IF v >= 0 THEN 1 ELSE 0, IF Abs(v) < 2 * Unit THEN 1 ELSE 0 >>

\* the two bits of one axis: the sign bit, then the magnitude bit
AxisBits(v) == << IF v > 0 THEN 1 ELSE 0, IF Abs(v) < 2 * Unit THEN 1 ELSE 0 >>

qam16_demodulate(symbols) ==
    Concat([i \in 1..Len(symbols) |->
              AxisBits(symbols[i].re) \o AxisBits(symbols[i].im)])

\* mutant of demodulate: the QPSK and 16-QAM branches exchanged
demodulate_crossed(choice, signal) ==
    CASE choice = "1" -> bpsk_demodulate(signal)
      [] choice = "2" -> qam16_demodulate(signal)
      [] choice = "3" -> qpsk_demodulate(signal)

\* main's three-way branches on mod_choice
modulate(choice, bs) ==
    CASE choice = "1" -> bpsk_modulate(bs)
      [] choice = "2" -> qpsk_modulate(bs)
      [] choice = "3" -> qam16_modulate(bs)

BitsPerSymbol(choice) ==
    CASE choice = "1" -> 1
      [] choice = "2" -> 2
      [] choice = "3" -> 4

demodulate(choice, signal) ==
    CASE choice = "1" -> bpsk_demodulate(signal)
      [] choice = "2" -> qpsk_demodulate(signal)
      [] choice = "3" -> qam16_demodulate(signal)

\* the function each branch calls, by name
Modulator(choice) ==
    CASE choice = "1" -> "bpsk_modulate"
      [] choice = "2" -> "qpsk_modulate"
      [] choice = "3" -> "qam16_modulate"

Demodulator(choice) ==
    CASE choice = "1" -> "bpsk_demodulate"
      [] choice = "2" -> "qpsk_demodulate"
      [] choice = "3" -> "qam16_demodulate"

\* an entry of the call history: the function called and, for
\* add_awgn_noise, the bits_per_symbol passed (0 for the other functions)
Call(f, b) == [fn |-> f, bps |-> b]

-----------------------------------------------------------------------------
(* AWGN channel *)

\* The noise add_awgn_noise draws is Gaussian with a positive standard
\* deviation for every finite Eb/N0, so every real perturbation can occur.
\* The realisations enumerated: no symbol moved, or one component of one
\* symbol moved by two amplitude units either way.  A real signal (BPSK)
\* gets real noise only.
NoiseSteps == {-2 * Unit, 2 * Unit}

ZeroNoise(signal) == [i \in 1..Len(signal) |-> Sym(0, 0)]

NoiseVectors(signal, complex) ==
    { ZeroNoise(signal) }
    \cup { [ZeroNoise(signal) EXCEPT ![i] = Sym(n, 0)] :
             i \in 1..Len(signal), n \in NoiseSteps }
    \cup { [ZeroNoise(signal) EXCEPT ![i] = Sym(0, n)] :
             i \in (IF complex THEN 1..Len(signal) ELSE {}), n \in NoiseSteps }

\* signal + noise
add_awgn_noise(signal, noise) ==
    [i \in 1..Len(signal) |->
        Sym(signal[i].re + noise[i].re, signal[i].im + noise[i].im)]

-----------------------------------------------------------------------------
(* main(): the chat loop *)

Texts == SeqsUpTo(Chars, MaxChars)
WavFiles == SeqsUpTo(Samples, MaxSamples)

\* the default of the Eb/N0 prompt, 5.0 dB, and the accepted range 0..20 dB,
\* in tenths of a dB
EbN0Default == 50
EbN0Min == 0
EbN0Max == 200

\* float(s): the entries that are numbers, in tenths of a dB; any other
\* non-empty entry raises ValueError
IsNumber(s) == s \in {"20", "20.1", "-0.5"}
float(s) ==
    CASE s = "20" -> 200
      [] s = "20.1" -> 201
      [] s = "-0.5" -> -5

\* The locals of main() before their first assignment hold the zero of their
\* type here.  Each is assigned in an iteration of the loop before it is
\* read, so the values of the previous iteration are dropped at the loop head.
Locals0 ==
    /\ mode = ""
    /\ message = <<>>
    /\ audio = <<>>
    /\ file_mode = ""
    /\ bits = <<>>
    /\ encoded = <<>>
    /\ mod_choice = ""
    /\ EbN0_dB = 0
    /\ bits_per_symbol = 0
    /\ modulated = <<>>
    /\ noisy = <<>>
    /\ demodulated = <<>>
    /\ decoded = <<>>
    /\ received_msg = <<>>
    /\ received_audio = <<>>
    /\ raised = "none"
    /\ calls = <<>>
    /\ typed = ""

Init ==
    /\ pc = "menu"
    /\ Locals0
    /\ given = <<>>
    /\ flips = {}

\* mode == '3'
Exit ==
    /\ pc = "menu"
    /\ mode' = "3"
    /\ pc' = "exit"
    /\ UNCHANGED << message, audio, file_mode, bits, encoded, mod_choice,
                    EbN0_dB, bits_per_symbol, modulated, noisy, demodulated,
                    decoded, received_msg, received_audio, raised, given, flips, calls, typed >>

\* mode == '1': the message is read and turned into bits
TextMessage ==
    /\ pc = "menu"
    /\ \E text \in Texts :
         /\ message' = text
         /\ bits' = text_to_bits(text)
    /\ mode' = "1"
    /\ file_mode' = "text"
    /\ pc' = "encode"
    /\ calls' = Append(calls, Call("text_to_bits", 0))
    /\ UNCHANGED << audio, encoded, mod_choice, EbN0_dB, bits_per_symbol,
                    modulated, noisy, demodulated, decoded, received_msg,
                    received_audio, raised, given, flips, typed >>

\* mode == '2', the file is read
AudioFile ==
    /\ pc = "menu"
    /\ \E path \in Paths, samples \in WavFiles :
         /\ path = "ok.wav"
         /\ audio' = samples
         /\ bits' = audio_to_bits(samples)
    /\ mode' = "2"
    /\ file_mode' = "audio"
    /\ pc' = "encode"
    /\ calls' = Append(calls, Call("audio_to_bits", 0))
    /\ UNCHANGED << message, encoded, mod_choice, EbN0_dB, bits_per_symbol,
                    modulated, noisy, demodulated, decoded, received_msg,
                    received_audio, raised, given, flips, typed >>

\* mode == '2', "File not found." or "Error reading audio file" (the
\* exception of wavfile.read is caught): continue
AudioFileRejected ==
    /\ pc = "menu"
    /\ mode' = "2"
    /\ \E path \in Paths : path # "ok.wav"
    /\ pc' = "menu"
    /\ UNCHANGED << message, audio, file_mode, bits, encoded, mod_choice,
                    EbN0_dB, bits_per_symbol, modulated, noisy, demodulated,
                    decoded, received_msg, received_audio, raised, given, flips, calls, typed >>

\* any other entry: "Invalid option. Try again."
InvalidOption ==
    /\ pc = "menu"
    /\ \E m \in ModeEntries \ {"1", "2", "3"} : mode' = m
    /\ pc' = "menu"
    /\ UNCHANGED << message, audio, file_mode, bits, encoded, mod_choice,
                    EbN0_dB, bits_per_symbol, modulated, noisy, demodulated,
                    decoded, received_msg, received_audio, raised, given, flips, calls, typed >>

HammingEncode ==
    /\ pc = "encode"
    /\ encoded' = hamming_encode(bits)
    /\ pc' = "choose_mod"
    /\ calls' = Append(calls, Call("hamming_encode", 0))
    /\ UNCHANGED << mode, message, audio, file_mode, bits, mod_choice, EbN0_dB,
                    bits_per_symbol, modulated, noisy, demodulated, decoded,
                    received_msg, received_audio, raised, given, flips, typed >>

\* the modulation prompt; a choice outside 1/2/3 becomes '1'.  Then the
\* default Eb/N0 is set ahead of the prompt loop.
ChooseModulation ==
    /\ pc = "choose_mod"
    /\ \E c \in ModEntries :
         /\ typed' = c
         /\ mod_choice' = (IF c \notin {"1", "2", "3"} THEN "1" ELSE c)
    /\ EbN0_dB' = EbN0Default
    /\ pc' = "ebn0"
    /\ UNCHANGED << mode, message, audio, file_mode, bits, encoded,
                    bits_per_symbol, modulated, noisy, demodulated, decoded,
                    received_msg, received_audio, raised, given, flips, calls >>

\* one turn of the Eb/N0 loop, nothing entered: break
EbN0Empty ==
    /\ pc = "ebn0"
    /\ pc' = "modulate"
    /\ UNCHANGED << mode, message, audio, file_mode, bits, encoded, mod_choice,
                    EbN0_dB, bits_per_symbol, modulated, noisy, demodulated,
                    decoded, received_msg, received_audio, raised, given, flips, calls, typed >>

\* one turn, float() raises ValueError: "Invalid input", the loop goes on
EbN0Invalid ==
    /\ pc = "ebn0"
    /\ \E e \in Entries : e # "" /\ ~IsNumber(e)
    /\ pc' = "ebn0"
    /\ UNCHANGED << mode, message, audio, file_mode, bits, encoded, mod_choice,
                    EbN0_dB, bits_per_symbol, modulated, noisy, demodulated,
                    decoded, received_msg, received_audio, raised, given, flips, calls, typed >>

\* one turn, a number: it is assigned, then tested against the range
EbN0Number ==
    /\ pc = "ebn0"
    /\ \E e \in Entries :
         /\ IsNumber(e)
         /\ EbN0_dB' = float(e)
         /\ pc' = (IF EbN0Min <= float(e) /\ float(e) <= EbN0Max
                   THEN "modulate" ELSE "ebn0")
    /\ UNCHANGED << mode, message, audio, file_mode, bits, encoded, mod_choice,
                    bits_per_symbol, modulated, noisy, demodulated, decoded,
                    received_msg, received_audio, raised, given, flips, calls, typed >>

Modulate ==
    /\ pc = "modulate"
    /\ modulated' = modulate(mod_choice, encoded)
    /\ bits_per_symbol' = BitsPerSymbol(mod_choice)
    /\ pc' = "transmit"
    /\ calls' = Append(calls, Call(Modulator(mod_choice), 0))
    /\ UNCHANGED << mode, message, audio, file_mode, bits, encoded, mod_choice,
                    EbN0_dB, noisy, demodulated, decoded, received_msg,
                    received_audio, raised, given, flips, typed >>

\* noisy = add_awgn_noise(modulated, EbN0_dB, bits_per_symbol)
Transmit ==
    /\ pc = "transmit"
    /\ \E noise \in NoiseVectors(modulated, mod_choice # "1") :
         noisy' = add_awgn_noise(modulated, noise)
    /\ pc' = "demodulate"
    /\ calls' = Append(calls, Call("add_awgn_noise", bits_per_symbol))
    /\ UNCHANGED << mode, message, audio, file_mode, bits, encoded, mod_choice,
                    EbN0_dB, bits_per_symbol, modulated, demodulated, decoded,
                    received_msg, received_audio, raised, given, flips, typed >>

Demodulate ==
    /\ pc = "demodulate"
    /\ demodulated' = demodulate(mod_choice, noisy)
    /\ pc' = "decode"
    /\ calls' = Append(calls, Call(Demodulator(mod_choice), 0))
    /\ UNCHANGED << mode, message, audio, file_mode, bits, encoded, mod_choice,
                    EbN0_dB, bits_per_symbol, modulated, noisy, decoded,
                    received_msg, received_audio, raised, given, flips, typed >>

\* decoded = hamming_decode(demodulated); the call also writes to demodulated
Decode ==
    /\ pc = "decode"
    /\ decoded' = hamming_decode(demodulated)
    /\ demodulated' = hamming_decode_arg(demodulated)
    /\ pc' = "output"
    /\ calls' = Append(calls, Call("hamming_decode", 0))
    /\ UNCHANGED << mode, message, audio, file_mode, bits, encoded, mod_choice,
                    EbN0_dB, bits_per_symbol, modulated, noisy, received_msg,
                    received_audio, raised, given, flips, typed >>

OutputText ==
    /\ pc = "output"
    /\ file_mode = "text"
    /\ received_msg' = bits_to_text(decoded)
    /\ pc' = "done"
    /\ calls' = Append(calls, Call("bits_to_text", 0))
    /\ UNCHANGED << mode, message, audio, file_mode, bits, encoded, mod_choice,
                    EbN0_dB, bits_per_symbol, modulated, noisy, demodulated,
                    decoded, received_audio, raised, given, flips, typed >>

\* an exception of bits_to_audio is caught: "Error processing audio"
OutputAudio ==
    /\ pc = "output"
    /\ file_mode = "audio"
    /\ IF bits_to_audio_raises(decoded)
       THEN raised' = "ValueError" /\ UNCHANGED received_audio
       ELSE raised' = "none" /\ received_audio' = bits_to_audio(decoded)
    /\ pc' = "done"
    /\ calls' = Append(calls, Call("bits_to_audio", 0))
    /\ UNCHANGED << mode, message, audio, file_mode, bits, encoded, mod_choice,
                    EbN0_dB, bits_per_symbol, modulated, noisy, demodulated,
                    decoded, received_msg, given, flips, typed >>

\* while True: back to the menu
LoopBack ==
    /\ pc = "done"
    /\ pc' = "menu"
    /\ mode' = ""
    /\ message' = <<>>
    /\ audio' = <<>>
    /\ file_mode' = ""
    /\ bits' = <<>>
    /\ encoded' = <<>>
    /\ mod_choice' = ""
    /\ EbN0_dB' = 0
    /\ bits_per_symbol' = 0
    /\ modulated' = <<>>
    /\ noisy' = <<>>
    /\ demodulated' = <<>>
    /\ decoded' = <<>>
    /\ received_msg' = <<>>
    /\ received_audio' = <<>>
    /\ raised' = "none"
    /\ calls' = <<>>
    /\ typed' = ""
    /\ UNCHANGED << given, flips >>

Next ==
    \/ Exit
    \/ TextMessage
    \/ AudioFile
    \/ AudioFileRejected
    \/ InvalidOption
    \/ HammingEncode
    \/ ChooseModulation
    \/ EbN0Empty
    \/ EbN0Invalid
    \/ EbN0Number
    \/ Modulate
    \/ Transmit
    \/ Demodulate
    \/ Decode
    \/ OutputText
    \/ OutputAudio
    \/ LoopBack

Spec == Init /\ [][Next]_vars

-----------------------------------------------------------------------------
(* Function-level runs: one function, or a short chain, on drawn arguments *)

\* the block (1-based) a position of the code-bit sequence lies in
BlockOf(p) == ((p - 1) \div 7) + 1

\* bit errors on k blocks: at most one in each block, or exactly two in one
\* block and none elsewhere
FlipSets(k) ==
    { f \in SUBSET (1..(7 * k)) :
        \/ \A j \in 1..k : Cardinality({p \in f : BlockOf(p) = j}) <= 1
        \/ /\ Cardinality(f) = 2
           /\ \A p \in f, q \in f : BlockOf(p) = BlockOf(q) }

\* the code bits with the channel's bit errors applied
Corrupt(code, f) ==
    [i \in 1..Len(code) |-> IF i \in f THEN Xor(code[i], 1) ELSE code[i]]

\* arguments of bits_to_audio: whole bytes followed by 0..7 more bits
AudioArgs ==
    { Concat([i \in 1..Len(bytes) |-> Format08b(bytes[i])]) \o Repeat(fill, t) :
        bytes \in SeqsUpTo(Bytes, MaxBytes), t \in 0..7, fill \in Bit }

\* received 16-QAM symbols: both axes on the grid -MaxAxis..MaxAxis in steps
\* of 1/Unit
AxisValues == (-MaxAxis * Unit)..(MaxAxis * Unit)

\* a run starts at p with these arguments and every other variable unassigned
RunFrom(p, text, data, code, choice, received, nibbles, f) ==
    /\ pc = p
    /\ mode = ""
    /\ message = text
    /\ audio = <<>>
    /\ file_mode = ""
    /\ bits = data
    /\ encoded = code
    /\ mod_choice = choice
    /\ EbN0_dB = 0
    /\ bits_per_symbol = 0
    /\ modulated = <<>>
    /\ noisy = <<>>
    /\ demodulated = received
    /\ decoded = nibbles
    /\ received_msg = <<>>
    /\ received_audio = <<>>
    /\ raised = "none"
    /\ given = received
    /\ flips = f
    /\ calls = <<>>
    /\ typed = ""

InitFn ==
    \/ \E text \in Texts :
         RunFrom("text_to_bits", text, <<>>, <<>>, "", <<>>, <<>>, {})
    \/ \E data \in SeqsUpTo(Bit, MaxData) :
         RunFrom("hamming_encode", <<>>, data, <<>>, "", <<>>, <<>>, {})
    \/ \E received \in SeqsUpTo(Bit, MaxCode) :
         RunFrom("hamming_decode", <<>>, <<>>, <<>>, "", received, <<>>, {})
    \/ \E nibbles \in AudioArgs :
         RunFrom("bits_to_audio", <<>>, <<>>, <<>>, "", <<>>, nibbles, {})
    \/ \E code \in SeqsUpTo(Bit, MaxModBits), choice \in {"1", "2", "3"} :
         RunFrom("modulate", <<>>, <<>>, code, choice, <<>>, <<>>, {})
    \/ \E k \in FecBlocks :
         \E data \in SeqsOfLen(Bit, 4 * k), f \in FlipSets(k) :
            RunFrom("fec_encode", <<>>, data, <<>>, "", <<>>, <<>>, f)
    \/ RunFrom("qam16_receive", <<>>, <<>>, <<>>, "3", <<>>, <<>>, {})

Run_text_to_bits ==
    /\ pc = "text_to_bits"
    /\ bits' = text_to_bits(message)
    /\ pc' = "text_to_bits_done"
    /\ UNCHANGED << mode, message, audio, file_mode, encoded, mod_choice,
                    EbN0_dB, bits_per_symbol, modulated, noisy, demodulated,
                    decoded, received_msg, received_audio, raised, given, flips, calls, typed >>

Run_hamming_encode ==
    /\ pc = "hamming_encode"
    /\ encoded' = hamming_encode(bits)
    /\ pc' = "hamming_encode_done"
    /\ UNCHANGED << mode, message, audio, file_mode, bits, mod_choice, EbN0_dB,
                    bits_per_symbol, modulated, noisy, demodulated, decoded,
                    received_msg, received_audio, raised, given, flips, calls, typed >>

Run_hamming_decode ==
    /\ pc = "hamming_decode"
    /\ decoded' = hamming_decode(demodulated)
    /\ demodulated' = hamming_decode_arg(demodulated)
    /\ pc' = "hamming_decode_done"
    /\ UNCHANGED << mode, message, audio, file_mode, bits, encoded, mod_choice,
                    EbN0_dB, bits_per_symbol, modulated, noisy, received_msg,
                    received_audio, raised, given, flips, calls, typed >>

Run_bits_to_audio ==
    /\ pc = "bits_to_audio"
    /\ IF bits_to_audio_raises(decoded)
       THEN raised' = "ValueError" /\ UNCHANGED received_audio
       ELSE raised' = "none" /\ received_audio' = bits_to_audio(decoded)
    /\ pc' = "bits_to_audio_done"
    /\ UNCHANGED << mode, message, audio, file_mode, bits, encoded, mod_choice,
                    EbN0_dB, bits_per_symbol, modulated, noisy, demodulated,
                    decoded, received_msg, given, flips, calls, typed >>

\* modulate, then demodulate what was modulated: no noise is added
Run_modulate ==
    /\ pc = "modulate"
    /\ modulated' = modulate(mod_choice, encoded)
    /\ bits_per_symbol' = BitsPerSymbol(mod_choice)
    /\ pc' = "demodulate"
    /\ UNCHANGED << mode, message, audio, file_mode, bits, encoded, mod_choice,
                    EbN0_dB, noisy, demodulated, decoded, received_msg,
                    received_audio, raised, given, flips, calls, typed >>

Run_demodulate ==
    /\ pc = "demodulate"
    /\ demodulated' = demodulate(mod_choice, modulated)
    /\ pc' = "demodulate_done"
    /\ UNCHANGED << mode, message, audio, file_mode, bits, encoded, mod_choice,
                    EbN0_dB, bits_per_symbol, modulated, noisy, decoded,
                    received_msg, received_audio, raised, given, flips, calls, typed >>

\* encode, corrupt the code bits at the positions of flips, decode
Run_fec_encode ==
    /\ pc = "fec_encode"
    /\ encoded' = hamming_encode(bits)
    /\ pc' = "fec_corrupt"
    /\ UNCHANGED << mode, message, audio, file_mode, bits, mod_choice, EbN0_dB,
                    bits_per_symbol, modulated, noisy, demodulated, decoded,
                    received_msg, received_audio, raised, given, flips, calls, typed >>

Run_fec_corrupt ==
    /\ pc = "fec_corrupt"
    /\ demodulated' = Corrupt(encoded, flips)
    /\ given' = Corrupt(encoded, flips)
    /\ pc' = "fec_decode"
    /\ UNCHANGED << mode, message, audio, file_mode, bits, encoded, mod_choice,
                    EbN0_dB, bits_per_symbol, modulated, noisy, decoded,
                    received_msg, received_audio, raised, flips, calls, typed >>

Run_fec_decode ==
    /\ pc = "fec_decode"
    /\ decoded' = hamming_decode(demodulated)
    /\ demodulated' = hamming_decode_arg(demodulated)
    /\ pc' = "fec_done"
    /\ UNCHANGED << mode, message, audio, file_mode, bits, encoded, mod_choice,
                    EbN0_dB, bits_per_symbol, modulated, noisy, received_msg,
                    received_audio, raised, given, flips, calls, typed >>

\* one symbol arrives from the channel and is demodulated
Run_qam16_receive ==
    /\ pc = "qam16_receive"
    /\ \E I \in AxisValues, Q \in AxisValues : noisy' = << Sym(I, Q) >>
    /\ pc' = "qam16_demodulate"
    /\ UNCHANGED << mode, message, audio, file_mode, bits, encoded, mod_choice,
                    EbN0_dB, bits_per_symbol, modulated, demodulated, decoded,
                    received_msg, received_audio, raised, given, flips, calls,
                    typed >>

Run_qam16_demodulate ==
    /\ pc = "qam16_demodulate"
    /\ demodulated' = qam16_demodulate(noisy)
    /\ pc' = "qam16_demodulate_done"
    /\ UNCHANGED << mode, message, audio, file_mode, bits, encoded, mod_choice,
                    EbN0_dB, bits_per_symbol, modulated, noisy, decoded,
                    received_msg, received_audio, raised, given, flips, calls,
                    typed >>

NextFn ==
    \/ Run_text_to_bits
    \/ Run_hamming_encode
    \/ Run_hamming_decode
    \/ Run_bits_to_audio
    \/ Run_modulate
    \/ Run_demodulate
    \/ Run_fec_encode
    \/ Run_fec_corrupt
    \/ Run_fec_decode
    \/ Run_qam16_receive
    \/ Run_qam16_demodulate

SpecFn == InitFn /\ [][NextFn]_vars

-----------------------------------------------------------------------------
(* Properties *)

\* the flips that fall in block j
FlipsIn(j) == {p \in flips : BlockOf(p) = j}

\* block j (1-based) of a code-bit sequence, and group j of a data sequence
BlockAt(code, j) == SubSeq(code, 7 * j - 6, 7 * j)
GroupAt(data, j) == SubSeq(data, 4 * j - 3, 4 * j)

\* the parity of a set of positions of a block
Parity(block, positions) ==
    Cardinality({p \in positions : block[p] = 1}) % 2

\* the position a Hamming(7,4) syndrome names: check 1 covers positions
\* 1,3,5,7, check 2 covers 2,3,6,7, check 3 covers 4,5,6,7
Named(block) ==
    Parity(block, {1, 3, 5, 7}) + 2 * Parity(block, {2, 3, 6, 7})
        + 4 * Parity(block, {4, 5, 6, 7})

\* C1: when the channel flips at most one bit in each 7-bit block of
\* hamming_encode's output (data of 4 or 8 bits), hamming_decode returns the
\* data bits exactly, whatever happens in the neighbouring block.
C1_SingleErrorsCorrected ==
    (pc = "fec_done" /\ \A j \in 1..(Len(encoded) \div 7) : Cardinality(FlipsIn(j)) <= 1)
        => decoded = bits

\* C1 witness: two blocks, each with one flipped bit (a parity bit in the
\* first, a data bit in the second), decoded to the data sent.
C1_Witness ==
    /\ pc = "fec_done"
    /\ bits = << 1, 0, 1, 1, 0, 1, 1, 0 >>
    /\ flips = {2, 12}
    /\ given # encoded
    /\ decoded = bits

\* texts of 8-bit characters
Latin1(text) == \A i \in 1..Len(text) : text[i] \in 0..255

\* C2: in a pass of main on a text of code points 0..255 in which the channel
\* moves no symbol, for BPSK, QPSK and 16-QAM, the received message is the
\* message typed and nothing is raised; the demodulated bits are the encoded
\* bits followed by the zeros that filled the last symbol, fewer than 7, and
\* they add no decoded bit.  Without a modulation stage the chain
\* text_to_bits, hamming_encode, hamming_decode, bits_to_text returns the
\* text too.  "HI" with BPSK has stage lengths 16, 28, 28, 28, 16, and the
\* empty text is empty at every stage.
C2_NoiseFreeRoundTrip ==
    (pc = "done" /\ file_mode = "text" /\ Latin1(message) /\ noisy = modulated)
        => /\ received_msg = message
           /\ raised = "none"
           /\ bits_to_text(hamming_decode(hamming_encode(text_to_bits(message))))
                = message
           /\ Take(demodulated, Len(encoded)) = encoded
           /\ Len(demodulated) - Len(encoded) < 7
           /\ \A i \in (Len(encoded) + 1)..Len(demodulated) : demodulated[i] = 0
           /\ decoded = bits
           /\ (message = << 72, 73 >> /\ mod_choice = "1")
                => /\ Len(bits) = 16
                   /\ Len(encoded) = 28
                   /\ Len(modulated) = 28
                   /\ Len(demodulated) = 28
                   /\ Len(decoded) = 16
           /\ message = <<>>
                => /\ bits = <<>>
                   /\ encoded = <<>>
                   /\ modulated = <<>>
                   /\ demodulated = <<>>
                   /\ decoded = <<>>
                   /\ received_msg = <<>>

\* C2 witness: a one-character text sent with 16-QAM and no symbol moved:
\* 14 code bits, 2 zeros of padding, 16 demodulated bits, the text received.
C2_Witness ==
    /\ pc = "done"
    /\ message = << 255 >>
    /\ mod_choice = "3"
    /\ noisy = modulated
    /\ Len(encoded) = 14
    /\ Len(demodulated) = 16
    /\ received_msg = message

\* C3: for each scheme and every bit sequence whose length is a multiple of
\* the scheme's bits per symbol (1, 2, 4), demodulating what modulate returned
\* gives the bits back, and there are length / bits-per-symbol symbols.
C3_ModemIdentity ==
    (pc = "demodulate_done" /\ Len(encoded) % bits_per_symbol = 0)
        => /\ demodulated = encoded
           /\ Len(modulated) * bits_per_symbol = Len(encoded)
           /\ bits_per_symbol = (CASE mod_choice = "1" -> 1
                                   [] mod_choice = "2" -> 2
                                   [] mod_choice = "3" -> 4)

\* C3 witnesses: 8 bits through each scheme, with every bit pair occurring.
C3_Witness ==
    /\ pc = "demodulate_done"
    /\ mod_choice = "2"
    /\ encoded = << 0, 0, 0, 1, 1, 1, 1, 0 >>
    /\ Len(modulated) = 4
    /\ demodulated = encoded

\* C4 (as claimed): for every text, text_to_bits returns 8 bits per
\* character, bits 8i..8i+7 being the code of character i, most significant
\* bit first.
C4_EightBitsPerChar ==
    pc = "text_to_bits_done"
        => /\ Len(bits) = 8 * Len(message)
           /\ \A i \in 1..Len(message) :
                IntBase2(SubSeq(bits, 8 * i - 7, 8 * i)) = message[i]

\* C5: hamming_encode returns ceil(n / 4) * 7 bits; group j of the input,
\* a short final group filled with zeros, becomes block j
\* [p1, p2, d1, p3, d2, d3, d4] with p1 = d1 xor d2 xor d4,
\* p2 = d1 xor d3 xor d4, p3 = d2 xor d3 xor d4.
C5_EncodeBlocks ==
    pc = "hamming_encode_done"
        => LET n == Len(bits)
               blocks == (n + 3) \div 4
               data == bits \o [i \in 1..(4 * blocks - n) |-> 0]
           IN  /\ Len(encoded) = blocks * 7
               /\ \A j \in 1..blocks :
                    LET d == GroupAt(data, j)
                        b == BlockAt(encoded, j)
                    IN  /\ b[3] = d[1] /\ b[5] = d[2] /\ b[6] = d[3] /\ b[7] = d[4]
                        /\ b[1] = (d[1] + d[2] + d[4]) % 2
                        /\ b[2] = (d[1] + d[3] + d[4]) % 2
                        /\ b[4] = (d[2] + d[3] + d[4]) % 2

\* C5 witness: 9 bits, the last group is one bit and three zeros of filling.
C5_Witness ==
    /\ pc = "hamming_encode_done"
    /\ bits = << 1, 0, 1, 1, 0, 1, 1, 0, 1 >>
    /\ Len(encoded) = 21
    /\ BlockAt(encoded, 3) = << 1, 1, 1, 0, 0, 0, 0 >>

\* C6: hamming_decode raises nothing on a sequence of any length n, returns
\* 4 * floor(n / 7) bits, and returns what it returns on the first
\* 7 * floor(n / 7) bits: a trailing block of fewer than 7 bits adds nothing
\* and changes nothing.
C6_PartialBlockDropped ==
    pc = "hamming_decode_done"
        => LET full == Len(given) \div 7
           IN  /\ raised = "none"
               /\ Len(decoded) = 4 * full
               /\ decoded = hamming_decode(Take(given, 7 * full))
               /\ \A j \in 1..full :
                    GroupAt(decoded, j) = DataOf(CorrectBlock(BlockAt(given, j)))

\* C6 witness: 13 bits, a full block and 6 more bits that are not all zero.
C6_Witness ==
    /\ pc = "hamming_decode_done"
    /\ Len(given) = 13
    /\ \E i \in 8..13 : given[i] = 1
    /\ Len(decoded) = 4

\* exactly two flips, both in one block
TwoInOneBlock ==
    /\ Cardinality(flips) = 2
    /\ \A p \in flips, q \in flips : BlockOf(p) = BlockOf(q)

\* C7: with exactly two bits of one encoded block flipped, hamming_decode
\* raises nothing and returns 4 bits for every block; the syndrome of the
\* received block names a position 1..7, and the nibble returned for the
\* block is the received block's data with the named bit flipped.
C7_DoubleErrorMiscorrected ==
    (pc = "fec_done" /\ TwoInOneBlock)
        => /\ raised = "none"
           /\ Len(decoded) = Len(bits)
           /\ \A j \in 1..(Len(given) \div 7) :
                LET r == BlockAt(given, j)
                    e == Named(r)
                    fixed == [p \in 1..7 |-> IF p = e THEN 1 - r[p] ELSE r[p]]
                IN  /\ FlipsIn(j) # {} => e \in 1..7
                    /\ FlipsIn(j) = {} => e = 0
                    /\ GroupAt(decoded, j)
                         = << fixed[3], fixed[5], fixed[6], fixed[7] >>

\* C7 witness: a nibble and a pair of positions for which the decoded nibble
\* is not the nibble sent.
C7_Witness ==
    /\ pc = "fec_done"
    /\ bits = << 1, 0, 1, 1 >>
    /\ flips = {1, 2}
    /\ Len(decoded) = 4
    /\ decoded # bits

\* C8 (as claimed): bits_to_audio returns the floor(n / 16) complete samples of
\* a sequence of any length n and raises nothing.
C8_IncompleteSampleDropped ==
    pc = "bits_to_audio_done"
        => /\ raised = "none"
           /\ Len(received_audio) = Len(decoded) \div 16

\* C9 (as claimed): the call of hamming_decode in main leaves the demodulated
\* bits as they were.
C9_DecodeLeavesArgument ==
    [][pc = "decode" => demodulated' = demodulated]_vars

\* C10 (as claimed): the Eb/N0 main passes to add_awgn_noise lies in [0, 20] dB.
C10_EbN0InRange ==
    pc = "transmit" => (EbN0Min <= EbN0_dB /\ EbN0_dB <= EbN0Max)

\* the scheme a typed modulation entry stands for
SchemeOf(entry) == IF entry \in {"1", "2", "3"} THEN entry ELSE "1"

\* the stage functions of a pass, in order, for a payload kind and a scheme
StagesOf(kind, scheme) ==
    << IF kind = "text" THEN "text_to_bits" ELSE "audio_to_bits",
       "hamming_encode",
       CASE scheme = "1" -> "bpsk_modulate"
         [] scheme = "2" -> "qpsk_modulate"
         [] scheme = "3" -> "qam16_modulate",
       "add_awgn_noise",
       CASE scheme = "1" -> "bpsk_demodulate"
         [] scheme = "2" -> "qpsk_demodulate"
         [] scheme = "3" -> "qam16_demodulate",
       "hamming_decode",
       IF kind = "text" THEN "bits_to_text" ELSE "bits_to_audio" >>

\* C11: once a pass of main has called add_awgn_noise, the functions called
\* so far are, once each and in this order, the bit codec, hamming_encode,
\* the modulator, add_awgn_noise, then the demodulator, hamming_decode and the
\* bit decoder as the pass goes on; modulator and demodulator are those of
\* the scheme typed, BPSK for an entry outside 1/2/3; add_awgn_noise was given
\* 1, 2 or 4 bits per symbol for BPSK, QPSK, 16-QAM; and the modulated and
\* demodulated values are what that scheme's functions return.
C11_StageOrder ==
    pc \in {"demodulate", "decode", "output", "done"}
        => LET scheme == SchemeOf(typed)
               reached == CASE pc = "demodulate" -> 4
                            [] pc = "decode" -> 5
                            [] pc = "output" -> 6
                            [] pc = "done" -> 7
           IN  /\ [i \in 1..Len(calls) |-> calls[i].fn]
                    = Take(StagesOf(file_mode, scheme), reached)
               /\ calls[4].bps = (CASE scheme = "1" -> 1
                                    [] scheme = "2" -> 2
                                    [] scheme = "3" -> 4)
               /\ modulated = (CASE scheme = "1" -> bpsk_modulate(encoded)
                                 [] scheme = "2" -> qpsk_modulate(encoded)
                                 [] scheme = "3" -> qam16_modulate(encoded))
               /\ pc = "decode"
                    => demodulated
                         = (CASE scheme = "1" -> bpsk_demodulate(noisy)
                              [] scheme = "2" -> qpsk_demodulate(noisy)
                              [] scheme = "3" -> qam16_demodulate(noisy))

\* C11 witness: a finished text pass in which "x" was typed at the modulation
\* prompt: seven calls, BPSK both ways, 1 bit per symbol given to the channel.
C11_Witness ==
    /\ pc = "done"
    /\ typed = "x"
    /\ message = << 72, 73 >>
    /\ Len(calls) = 7
    /\ calls[3].fn = "bpsk_modulate"
    /\ calls[4] = Call("add_awgn_noise", 1)
    /\ calls[5].fn = "bpsk_demodulate"

\* the levels of the 16-QAM alphabet on one axis
Levels == {-3 * Unit, -1 * Unit, 1 * Unit, 3 * Unit}

\* the level qam16_modulate maps the bit pair of axis value v to is a level
\* nearest to v, and at the tie points -2, 0, 2 it is -3, -1, +3
NearestLevel(v, pair) ==
    LET level == mapping(pair[1], pair[2])
    IN  /\ level \in Levels
        /\ \A l \in Levels : Abs(v - level) <= Abs(v - l)
        /\ v = -2 * Unit => level = -3 * Unit
        /\ v = 0 => level = -1 * Unit
        /\ v = 2 * Unit => level = 3 * Unit

\* C12: for a received 16-QAM symbol with axis values on the grid, the four
\* bits qam16_demodulate returns are, for each axis, (v > 0, |v| < 2), and
\* that pair is the one qam16_modulate maps to a level nearest to v; at
\* v = -2, 0, 2 the level is -3, -1, +3.
C12_NearestLevel ==
    pc = "qam16_demodulate_done"
        => LET I == noisy[1].re
               Q == noisy[1].im
           IN  /\ Len(demodulated) = 4
               /\ demodulated[1] = (IF I > 0 THEN 1 ELSE 0)
               /\ demodulated[2] = (IF Abs(I) < 2 * Unit THEN 1 ELSE 0)
               /\ demodulated[3] = (IF Q > 0 THEN 1 ELSE 0)
               /\ demodulated[4] = (IF Abs(Q) < 2 * Unit THEN 1 ELSE 0)
               /\ NearestLevel(I, SubSeq(demodulated, 1, 2))
               /\ NearestLevel(Q, SubSeq(demodulated, 3, 4))

\* C12 witness: the symbol 0 - 2j, both axes at tie points: bits 0,1 (level
\* -1) and 0,0 (level -3).
C12_Witness ==
    /\ pc = "qam16_demodulate_done"
    /\ noisy = << Sym(0, -2 * Unit) >>
    /\ demodulated = << 0, 1, 0, 0 >>

=============================================================================
